---- MODULE Spec2Model ----
(***************************************************************************)
(* Model of pdoc_post_prod.py: the line scanner PdocPostProd that rewrites *)
(* :param/:type/:return/:rtype/:raises directives (or their '@' forms)     *)
(* into HTML.                                                              *)
(*                                                                         *)
(* Text is modelled character by character: a Python str is a sequence of  *)
(* one-character strings, so "ab" is <<"a", "b">> and '' is <<>>.          *)
(* Python's None is the empty tuple; the pair curr_parm_match is           *)
(* <<name, desc>> and an open curr_return_desc is the 1-tuple <<desc>>     *)
(* (so that an open return with an empty description differs from None).   *)
(***************************************************************************)
EXTENDS Naturals, Sequences, FiniteSets

VARIABLES
    in_fd,            \* the lines in_fd.readlines() yields
    out_fd,           \* everything written to out_fd so far
    stderr,           \* one entry per warning written to sys.stderr
    raise_errors,     \* self.raise_errors
    warnings,         \* self.warnings
    force_type_spec,  \* self.force_type_spec
    delimiter_char,   \* the constructor's delimiter_char argument, then the
                      \* parameter it is bound to
    curr_parm_match,  \* self.curr_parm_match
    curr_return_desc, \* self.curr_return_desc
    line_num,         \* number of lines the for loop of parse has taken
    pc,               \* "init", "loop", "finally" or "done"
    exc,              \* the exception in flight or delivered to the caller
    hist              \* per line taken: the two specs before and after it,
                      \* and the length of out_fd before and after it

vars == <<in_fd, out_fd, stderr, raise_errors, warnings, force_type_spec,
          delimiter_char, curr_parm_match, curr_return_desc, line_num, pc,
          exc, hist>>

\* Longest input, in lines.
MaxLines == 3

None == <<>>
NoExc == "None"

------------------------------------------------------------------------------
(* Python str helpers *)

\* str.isspace() for the characters of the model's alphabet
IsSpace(c) == c \in {" ", "\n", "\t"}

\* s.endswith(suffix)
EndsWith(s, suffix) ==
    /\ Len(suffix) <= Len(s)
    /\ SubSeq(s, Len(s) - Len(suffix) + 1, Len(s)) = suffix

\* s.startswith(prefix, i-1): prefix occurs in s at (1-based) position i
MatchAt(s, i, prefix) ==
    /\ i + Len(prefix) - 1 <= Len(s)
    /\ SubSeq(s, i, i + Len(prefix) - 1) = prefix

\* sub in s
Contains(s, sub) == \E i \in 1..(Len(s) + 1) : MatchAt(s, i, sub)

\* index of the first non-whitespace character, Len(s)+1 if there is none
FirstNonSpace(s) ==
    IF \A i \in 1..Len(s) : IsSpace(s[i]) THEN Len(s) + 1
    ELSE CHOOSE i \in 1..Len(s) :
            ~IsSpace(s[i]) /\ \A j \in 1..(i - 1) : IsSpace(s[j])

\* index of the last non-whitespace character, 0 if there is none
LastNonSpace(s) ==
    IF \A i \in 1..Len(s) : IsSpace(s[i]) THEN 0
    ELSE CHOOSE i \in 1..Len(s) :
            ~IsSpace(s[i]) /\ \A j \in (i + 1)..Len(s) : IsSpace(s[j])

\* s.rstrip()
Rstrip(s) == SubSeq(s, 1, LastNonSpace(s))

\* s.strip()
Strip(s) == SubSeq(s, FirstNonSpace(s), LastNonSpace(s))

------------------------------------------------------------------------------
(* class ParseInfo *)

line_sep == <<"<", "/", "b", "r", ">">>

\* line_blank_pat = ^[\s]*$
line_blank_pat(line) == \A i \in 1..Len(line) : IsSpace(line[i])

\* the group (^[ ]+): the length of the run of blanks the line starts with
IndentLen(line) ==
    IF \A i \in 1..Len(line) : line[i] = " " THEN Len(line)
    ELSE (CHOOSE i \in 1..Len(line) :
            line[i] # " " /\ \A j \in 1..(i - 1) : line[j] = " ") - 1

\* where (.*)$ ends: '$' matches at the end of the string or before a final
\* newline, and '.' matches no newline
DollarEnd(line) ==
    IF Len(line) > 0 /\ line[Len(line)] = "\n" THEN Len(line) - 1 ELSE Len(line)

\* (.*)$ matches from position i to the end of the line
DotStarToEnd(line, i) == \A j \in i..DollarEnd(line) : line[j] # "\n"

\* (^[ ]+)<marker>: the marker follows at least one blank of indentation;
\* gives the position right after the marker, 0 when there is no match
AfterMarker(line, marker) ==
    LET k == IndentLen(line)
    IN  IF k >= 1 /\ MatchAt(line, k + 1, marker) THEN k + 1 + Len(marker) ELSE 0

\* (^[ ]+)<marker>([^:]*):(.*)$  -- param_pat and type_pat.
\* The groups (indent, name, text), or None.
NamedPat(line, marker) ==
    LET p == AfterMarker(line, marker)
        colons == {i \in p..Len(line) : line[i] = ":"}
    IN  IF p = 0 \/ colons = {} THEN None
        ELSE LET c == CHOOSE i \in colons : \A j \in colons : i <= j
             IN  IF DotStarToEnd(line, c + 1)
                 THEN <<SubSeq(line, 1, IndentLen(line)),
                        SubSeq(line, p, c - 1),
                        SubSeq(line, c + 1, DollarEnd(line))>>
                 ELSE None

\* (^[ ]+)<marker>[<opt>]{0,1}[:| ]{0,1}(.*)$ -- return_pat, rtype_pat and
\* raises_pat; opt is the set of the optional letters after the keyword.
\* Both optional items are greedy and (.*) takes whatever is left.
\* The groups (indent, text), or None.
PlainPat(line, marker, opt) ==
    LET p == AfterMarker(line, marker)
        q == IF p # 0 /\ p <= Len(line) /\ line[p] \in opt THEN p + 1 ELSE p
        r == IF q # 0 /\ q <= Len(line) /\ line[q] \in {":", "|", " "}
             THEN q + 1 ELSE q
    IN  IF p = 0 \/ ~DotStarToEnd(line, r) THEN None
        ELSE <<SubSeq(line, 1, IndentLen(line)), SubSeq(line, r, DollarEnd(line))>>

KwParam  == <<"p", "a", "r", "a", "m">>
KwType   == <<"t", "y", "p", "e">>
KwReturn == <<"r", "e", "t", "u", "r", "n">>
KwRtype  == <<"r", "t", "y", "p", "e">>
KwRaise  == <<"r", "a", "i", "s", "e">>

\* The patterns ParseInfo.__init__ compiles for delimiter d
\* param_pat that takes the marker of either family
param_pat_EitherFamily(d, line) ==
    IF NamedPat(line, <<d>> \o KwParam) # None THEN NamedPat(line, <<d>> \o KwParam)
    ELSE NamedPat(line, <<IF d = "@" THEN ":" ELSE "@">> \o KwParam)
param_pat(d, line)  == NamedPat(line, <<d>> \o KwParam)
type_pat(d, line)   == NamedPat(line, <<d>> \o KwType)
\* return_pat that knows no plural
return_pat_NoPlural(d, line) == PlainPat(line, <<d>> \o KwReturn, {})
return_pat(d, line) == PlainPat(line, <<d>> \o KwReturn, {"s"})
rtype_pat(d, line)  == PlainPat(line, <<d>> \o KwRtype, {})
\* raises_pat whose '@' form lacks the optional letter after 'raise'
raises_pat_AtWithoutPlural(d, line) ==
    PlainPat(line, <<d>> \o KwRaise, IF d = ":" THEN {"s", "|", "d"} ELSE {})
raises_pat(d, line) == PlainPat(line, <<d>> \o KwRaise, {"s", "|", "d"})

------------------------------------------------------------------------------
(* class PdocPostProd.  The methods are operators on the record             *)
(*   [parm, ret, out, err, exc, parseInfo]                                  *)
(* of curr_parm_match, curr_return_desc, the text written to out_fd, the    *)
(* warnings written to stderr, the exception raised (NoExc: none) and the   *)
(* delimiter the patterns of self.parseInfo were compiled for.  A method    *)
(* that raises returns at once with exc set.                                *)

Write(s, txt) == [s EXCEPT !.out = @ \o txt]

B_open    == <<"<", "b", ">">>
B_close   == <<"<", "/", "b", ">">>
I_close   == <<"<", "/", "i", ">">>

\* the literals the handlers write
TypeOpenMarkup   == <<"(">> \o B_open \o I_close
TypeCloseMarkup  == I_close \o B_close \o <<")", ":", " ">>
ReturnsMarkup    == B_open \o <<"r","e","t","u","r","n","s",":">> \o B_close \o <<" ">>
ReturnTypeMarkup == B_open \o <<"r","e","t","u","r","n"," ","t","y","p","e",":">>
                    \o B_close \o <<" ">>
RaisesMarkup     == B_open \o <<"r","a","i","s","e","s",":">> \o B_close \o <<" ">>

\* "x = v" followed by Op(x): v is evaluated once and named
Bind(v, Op(_)) == CHOOSE y \in {Op(x) : x \in {v}} : TRUE

\* error_notify that looks at the warnings flag first
ErrorNotify_WarnFirst(s, error_inst) ==
    IF warnings THEN [s EXCEPT !.err = Append(@, error_inst)]
    ELSE IF raise_errors THEN [s EXCEPT !.exc = error_inst]
    ELSE s

\* error_notify that raises whenever it does not warn
ErrorNotify_RaisesUnlessWarned(s, error_inst) ==
    IF raise_errors \/ ~warnings THEN [s EXCEPT !.exc = error_inst]
    ELSE [s EXCEPT !.err = Append(@, error_inst)]

\* error_notify(msg, error_inst)
ErrorNotify(s, error_inst) ==
    IF raise_errors THEN [s EXCEPT !.exc = error_inst]
    ELSE IF warnings THEN [s EXCEPT !.err = Append(@, error_inst)]
    ELSE s

\* finish_parameter_spec without the force_type_spec check
FinishParameterSpec_NoTypeCheck(s, type_found) ==
    IF s.parm = None THEN s
    ELSE [s EXCEPT !.out = IF ~EndsWith(s.parm[2], line_sep) THEN @ \o line_sep ELSE @,
                   !.parm = None]

\* finish_parameter_spec(type_found, line_no)
FinishParameterSpec(s, type_found) ==
    IF s.parm = None THEN s
    ELSE Bind(IF force_type_spec /\ ~type_found
              THEN ErrorNotify(s, "NoTypeError") ELSE s,
         LAMBDA s1 :
              IF s1.exc # NoExc THEN s1
              ELSE [s1 EXCEPT !.out = IF ~EndsWith(s.parm[2], line_sep)
                                      THEN @ \o line_sep ELSE @,
                              !.parm = None])

\* finish_return_spec(line_no)
FinishReturnSpec(s) ==
    IF s.ret = None THEN s
    ELSE [s EXCEPT !.out = IF ~EndsWith(s.ret[1], line_sep) THEN @ \o line_sep ELSE @,
                   !.ret = None]

HANDLED     == TRUE
NOT_HANDLED == FALSE

\* what a check_* method leaves: the state and the HandleRes it returns
\* (the result is not looked at when the method raised)
Res(s, handled) == [st |-> s, handled |-> handled]

\* check_param_spec(line, line_num)
CheckParamSpec(s, line) ==
    Bind(param_pat(s.parseInfo, line), LAMBDA parm_match :
    IF parm_match = None THEN Res(s, NOT_HANDLED)
    ELSE
    Bind(IF s.parm # None /\ force_type_spec
         THEN ErrorNotify(s, "NoTypeError") ELSE s, LAMBDA s1 :
    IF s1.exc # NoExc THEN Res(s1, NOT_HANDLED)
    ELSE
    Bind(FinishParameterSpec(s1, FALSE), LAMBDA s2 :
    IF s2.exc # NoExc THEN Res(s2, NOT_HANDLED)
    ELSE
    Bind(<<parm_match[1], Strip(parm_match[2]), Strip(parm_match[3])>>, LAMBDA frags :
    Res([s2 EXCEPT !.parm = <<frags[2], frags[3]>>,
                   !.out = @ \o frags[1] \o B_open \o frags[2] \o B_close \o <<" ">>],
        HANDLED)))))

\* check_type_spec that lets a type line without a parameter pass unreported
CheckTypeSpec_NoParamUnreported(s, line) ==
    Bind(type_pat(s.parseInfo, line), LAMBDA type_match :
    IF type_match = None \/ s.parm = None THEN Res(s, NOT_HANDLED)
    ELSE IF Strip(type_match[2]) # s.parm[1]
    THEN Res(ErrorNotify(s, "ParamTypeMismatch"), NOT_HANDLED)
    ELSE
    Bind(FinishParameterSpec(
            Write(s, TypeOpenMarkup \o Strip(type_match[3]) \o TypeCloseMarkup \o s.parm[2]),
            TRUE), LAMBDA s2 :
    IF s2.exc # NoExc THEN Res(s2, NOT_HANDLED)
    ELSE Res([s2 EXCEPT !.parm = None], HANDLED)))

\* check_type_spec that gives up the open parameter on a name mismatch
CheckTypeSpec_MismatchDropsParam(s, line) ==
    Bind(type_pat(s.parseInfo, line), LAMBDA type_match :
    IF type_match = None /\ s.parm # None THEN Res(s, NOT_HANDLED)
    ELSE IF type_match # None /\ s.parm = None
    THEN Res(ErrorNotify(s, "NoParamError"), NOT_HANDLED)
    ELSE IF type_match # None /\ s.parm # None
    THEN Bind(<<Strip(type_match[2]), Strip(type_match[3])>>, LAMBDA frags :
         IF frags[1] # s.parm[1]
         THEN Res([ErrorNotify(s, "ParamTypeMismatch") EXCEPT !.parm = None], NOT_HANDLED)
         ELSE
         Bind(FinishParameterSpec(
                 Write(s, TypeOpenMarkup \o frags[2] \o TypeCloseMarkup \o s.parm[2]),
                 TRUE), LAMBDA s2 :
         IF s2.exc # NoExc THEN Res(s2, NOT_HANDLED)
         ELSE Res([s2 EXCEPT !.parm = None], HANDLED)))
    ELSE Res(s, NOT_HANDLED))

\* check_type_spec(line, line_num)
CheckTypeSpec(s, line) ==
    Bind(type_pat(s.parseInfo, line), LAMBDA type_match :
    IF type_match = None /\ s.parm # None THEN Res(s, NOT_HANDLED)
    ELSE IF type_match # None /\ s.parm = None
    THEN Res(ErrorNotify(s, "NoParamError"), NOT_HANDLED)
    ELSE IF type_match # None /\ s.parm # None
    THEN Bind(<<Strip(type_match[2]), Strip(type_match[3])>>, LAMBDA frags :
         IF frags[1] # s.parm[1]
         THEN Res(ErrorNotify(s, "ParamTypeMismatch"), NOT_HANDLED)
         ELSE
         Bind(FinishParameterSpec(
                 Write(s, TypeOpenMarkup \o frags[2] \o TypeCloseMarkup \o s.parm[2]),
                 TRUE), LAMBDA s2 :
         IF s2.exc # NoExc THEN Res(s2, NOT_HANDLED)
         ELSE Res([s2 EXCEPT !.parm = None], HANDLED)))
    ELSE Res(s, NOT_HANDLED))

\* check_return_spec(line, line_num)
CheckReturnSpec(s, line) ==
    Bind(return_pat(s.parseInfo, line), LAMBDA return_match :
    IF return_match = None THEN Res(s, NOT_HANDLED)
    ELSE
    Bind(FinishParameterSpec(s, FALSE), LAMBDA s1 :
    IF s1.exc # NoExc THEN Res(s1, NOT_HANDLED)
    ELSE
    Bind(IF s1.ret # None THEN ErrorNotify(s1, "DoubleReturnError") ELSE s1, LAMBDA s2 :
    IF s2.exc # NoExc THEN Res(s2, NOT_HANDLED)
    ELSE
    Bind(IF s1.ret # None THEN [FinishReturnSpec(s2) EXCEPT !.ret = None] ELSE s2, LAMBDA s3 :
    Res([s3 EXCEPT !.ret = <<Strip(return_match[2])>>,
                   !.out = @ \o return_match[1] \o ReturnsMarkup],
        HANDLED)))))

\* check_rtype_spec that leaves an open parameter alone
CheckRtypeSpec_ParamLeftOpen(s, line) ==
    Bind(rtype_pat(s.parseInfo, line), LAMBDA rtype_match :
    IF rtype_match = None THEN Res(s, NOT_HANDLED)
    ELSE Res(Write(s, rtype_match[1] \o ReturnTypeMarkup
                      \o Strip(rtype_match[2]) \o line_sep),
             HANDLED))

\* check_rtype_spec(line, line_num)
CheckRtypeSpec(s, line) ==
    Bind(rtype_pat(s.parseInfo, line), LAMBDA rtype_match :
    IF rtype_match = None THEN Res(s, NOT_HANDLED)
    ELSE
    Bind(FinishParameterSpec(s, FALSE), LAMBDA s1 :
    IF s1.exc # NoExc THEN Res(s1, NOT_HANDLED)
    ELSE Res(Write(s1, rtype_match[1] \o ReturnTypeMarkup
                       \o Strip(rtype_match[2]) \o line_sep),
             HANDLED)))

\* check_raises_spec that finalizes the open return as well
CheckRaisesSpec_ClosesReturn(s, line) ==
    Bind(raises_pat(s.parseInfo, line), LAMBDA raises_match :
    IF raises_match = None THEN Res(s, NOT_HANDLED)
    ELSE
    Bind(FinishReturnSpec(FinishParameterSpec(s, FALSE)), LAMBDA s1 :
    IF s1.exc # NoExc THEN Res(s1, NOT_HANDLED)
    ELSE Res(Write(s1, raises_match[1] \o RaisesMarkup
                       \o Strip(raises_match[2]) \o line_sep),
             HANDLED)))

\* check_raises_spec(line, line_num)
CheckRaisesSpec(s, line) ==
    Bind(raises_pat(s.parseInfo, line), LAMBDA raises_match :
    IF raises_match = None THEN Res(s, NOT_HANDLED)
    ELSE
    Bind(FinishParameterSpec(s, FALSE), LAMBDA s1 :
    IF s1.exc # NoExc THEN Res(s1, NOT_HANDLED)
    ELSE Res(Write(s1, raises_match[1] \o RaisesMarkup
                       \o Strip(raises_match[2]) \o line_sep),
             HANDLED)))

\* the rest of the loop body that looks at the open return first
RegularLine_ReturnFirst(s, line) ==
    IF s.ret # None
    THEN [s EXCEPT !.ret = <<s.ret[1] \o <<" ">> \o Strip(line)>>]
    ELSE IF s.parm # None
    THEN [s EXCEPT !.parm = <<s.parm[1], s.parm[2] \o <<" ">> \o line>>]
    ELSE IF ~line_blank_pat(line)
    THEN Write(s, line \o (IF EndsWith(line, <<"\n">>) THEN <<>> ELSE line_sep))
    ELSE s

\* parse, the rest of the loop body: a line that no check_* method handled
RegularLine(s, line) ==
    IF s.parm # None
    THEN [s EXCEPT !.parm = <<s.parm[1], s.parm[2] \o <<" ">> \o line>>]
    ELSE IF s.ret # None
    THEN [s EXCEPT !.ret = <<s.ret[1] \o <<" ">> \o Strip(line)>>]
    ELSE IF ~line_blank_pat(line)
    THEN Write(s, line \o (IF EndsWith(line, <<"\n">>) THEN <<>> ELSE line_sep))
    ELSE s

\* a check_* call ends the iteration: it handled the line, or it raised
Ends(r) == r.handled = HANDLED \/ r.st.exc # NoExc

\* parse, one iteration of the for loop
LoopBody(s, line) ==
    Bind(CheckParamSpec(s, line),       LAMBDA r1 : IF Ends(r1) THEN r1.st ELSE
    Bind(CheckTypeSpec(r1.st, line),    LAMBDA r2 : IF Ends(r2) THEN r2.st ELSE
    Bind(CheckReturnSpec(r2.st, line),  LAMBDA r3 : IF Ends(r3) THEN r3.st ELSE
    Bind(CheckRtypeSpec(r3.st, line),   LAMBDA r4 : IF Ends(r4) THEN r4.st ELSE
    Bind(CheckRaisesSpec(r4.st, line),  LAMBDA r5 : IF Ends(r5) THEN r5.st ELSE
    RegularLine(r5.st, line))))))

\* parse, the finally block, entered with no exception in flight
FinallyBody(s) ==
    IF s.parm # None
    THEN FinishParameterSpec(Write(s, Rstrip(s.parm[2])), FALSE)
    ELSE IF s.ret # None
    THEN FinishReturnSpec(Write(s, Rstrip(s.ret[1])))
    ELSE s

\* parse, leaving the try statement: an exception raised by the finally
\* block replaces the one in flight, otherwise that one is re-raised
Finally(s) ==
    Bind(FinallyBody([s EXCEPT !.exc = NoExc]), LAMBDA f :
    IF f.exc # NoExc THEN f ELSE [f EXCEPT !.exc = s.exc])

------------------------------------------------------------------------------
(* The inputs *)

SP == <<" ">>
NL == <<"\n">>

\* ' <d>param <name>: <desc>\n'
ParamLine(d, name, desc) == SP \o <<d>> \o KwParam \o SP \o name \o <<":">> \o SP \o desc \o NL
\* ' <d>type <name>: <desc>\n'
TypeLine(d, name, desc)  == SP \o <<d>> \o KwType \o SP \o name \o <<":">> \o SP \o desc \o NL
\* ' <d>return <desc>\n'
ReturnLine(d, desc)      == SP \o <<d>> \o KwReturn \o SP \o desc \o NL
\* ' <d>rtype: <desc>\n'
RtypeLine(d, desc)       == SP \o <<d>> \o KwRtype \o <<":">> \o SP \o desc \o NL
\* ' <d>raises <desc>\n'
RaisesLine(d, desc)      == SP \o <<d>> \o KwRaise \o <<"s">> \o SP \o desc \o NL
\* lines that are no directive: text, an empty line, text without newline
PlainLine   == SP \o <<"x">> \o NL
BlankLine   == NL
LastLine    == <<"y">>

Other(d) == IF d = "@" THEN ":" ELSE "@"

\* the lines of the inputs parsed with delimiter_char d: every directive of
\* the family d, the three plain lines, and two directives of the other family
InputLines(d) ==
    {ParamLine(d, <<"n">>, <<"d">>), TypeLine(d, <<"n">>, <<"t">>),
     TypeLine(d, <<"m">>, <<"t">>), ReturnLine(d, <<"r">>),
     RtypeLine(d, <<"i">>), RaisesLine(d, <<"E">>),
     PlainLine, BlankLine, LastLine,
     ParamLine(Other(d), <<"n">>, <<"d">>), TypeLine(Other(d), <<"n">>, <<"t">>)}

\* all inputs of at most MaxLines lines; readlines() splits after each
\* newline, so only the last line can lack one
Inputs(lines) ==
    {f \in UNION {[1..n -> lines] : n \in 0..MaxLines} :
        \A i \in 1..(Len(f) - 1) : EndsWith(f[i], NL)}

------------------------------------------------------------------------------
(* The program *)

Cur == [parm |-> curr_parm_match, ret |-> curr_return_desc, out |-> out_fd,
        err |-> stderr, exc |-> exc, parseInfo |-> delimiter_char]

\* the call PdocPostProd(in_fd, out_fd, raise_errors, warnings_on,
\* delimiter_char, force_type_spec) is about to run
Init ==
    /\ delimiter_char \in {":", "@", "#"}
    /\ in_fd \in Inputs(InputLines(IF delimiter_char = "#" THEN ":" ELSE delimiter_char))
    /\ raise_errors \in BOOLEAN
    /\ warnings \in BOOLEAN
    /\ force_type_spec \in BOOLEAN
    /\ out_fd = <<>>
    /\ stderr = <<>>
    /\ curr_parm_match = None
    /\ curr_return_desc = None
    /\ line_num = 0
    /\ pc = "init"
    /\ exc = NoExc
    /\ hist = <<>>

\* the delimiter_char argument left out of the call
NotGiven == "NotGiven"

\* the value __init__ binds delimiter_char to
Bound(d) == IF d = NotGiven THEN "@" ELSE d

\* __init__ that builds the patterns for whatever delimiter_char it gets
Construct_AnyDelimiter ==
    /\ pc = "init"
    /\ delimiter_char' = Bound(delimiter_char)
    /\ exc' = NoExc
    /\ pc' = IF Len(in_fd) = 0 THEN "finally" ELSE "loop"
    /\ curr_parm_match' = None
    /\ curr_return_desc' = None
    /\ UNCHANGED <<in_fd, out_fd, stderr, raise_errors, warnings,
                   force_type_spec, line_num, hist>>

\* __init__ up to the first iteration of parse: delimiter_char is bound to
\* the argument or to its default, then ParseInfo(delimiter_char) raises
\* ValueError, or parse clears the two specs and reads the lines
Construct ==
    /\ pc = "init"
    /\ delimiter_char' = Bound(delimiter_char)
    /\ IF Bound(delimiter_char) \notin {":", "@"}
       THEN /\ exc' = "ValueError"
            /\ pc' = "done"
       ELSE /\ exc' = NoExc
            /\ pc' = IF Len(in_fd) = 0 THEN "finally" ELSE "loop"
    /\ curr_parm_match' = None
    /\ curr_return_desc' = None
    /\ UNCHANGED <<in_fd, out_fd, stderr, raise_errors, warnings,
                   force_type_spec, line_num, hist>>

\* one iteration of the for loop of parse
ParseLine ==
    /\ pc = "loop"
    /\ line_num < Len(in_fd)
    /\ \E s \in {LoopBody(Cur, in_fd[line_num + 1])} :
           /\ curr_parm_match' = s.parm
           /\ curr_return_desc' = s.ret
           /\ out_fd' = s.out
           /\ stderr' = s.err
           /\ exc' = s.exc
           /\ pc' = IF s.exc # NoExc \/ line_num + 1 = Len(in_fd)
                    THEN "finally" ELSE "loop"
           /\ hist' = Append(hist, [parm |-> curr_parm_match,
                                    ret  |-> curr_return_desc,
                                    pre  |-> Len(out_fd),
                                    post |-> Len(s.out),
                                    parm_after |-> s.parm,
                                    ret_after  |-> s.ret])
    /\ line_num' = line_num + 1
    /\ UNCHANGED <<in_fd, raise_errors, warnings, force_type_spec, delimiter_char>>

\* the finally block of parse, then the return or the raise to the caller
ParseFinally ==
    /\ pc = "finally"
    /\ \E s \in {Finally(Cur)} :
           /\ curr_parm_match' = s.parm
           /\ curr_return_desc' = s.ret
           /\ out_fd' = s.out
           /\ stderr' = s.err
           /\ exc' = s.exc
    /\ pc' = "done"
    /\ UNCHANGED <<in_fd, raise_errors, warnings, force_type_spec,
                   delimiter_char, line_num, hist>>

Next == Construct \/ ParseLine \/ ParseFinally

Spec == Init /\ [][Next]_vars

------------------------------------------------------------------------------
(* Vocabulary of the properties *)

\* the text the iteration on line i wrote to out_fd
Written(i) == SubSeq(out_fd, hist[i].pre + 1, hist[i].post)

\* the text the finally block writes in the step being taken
FinallyText == SubSeq(out_fd', Len(out_fd) + 1, Len(out_fd'))

IsPrefix(p, s) == MatchAt(s, 1, p)

IsParam(line)  == param_pat(delimiter_char, line) # None
IsType(line)   == type_pat(delimiter_char, line) # None
IsReturn(line) == return_pat(delimiter_char, line) # None
IsRtype(line)  == rtype_pat(delimiter_char, line) # None
IsRaises(line) == raises_pat(delimiter_char, line) # None
IsDirective(line) ==
    IsParam(line) \/ IsType(line) \/ IsReturn(line) \/ IsRtype(line) \/ IsRaises(line)

ParamName(line) == Strip(param_pat(delimiter_char, line)[2])
ParamDesc(line) == Strip(param_pat(delimiter_char, line)[3])
TypeName(line)  == Strip(type_pat(delimiter_char, line)[2])
TypeDesc(line)  == Strip(type_pat(delimiter_char, line)[3])

\* a finalized description as the output shows it: the description and the
\* closing token, which is not repeated when the description ends with it
Closed(desc) ==
    IF EndsWith(Rstrip(desc), line_sep) THEN Rstrip(desc)
    ELSE Rstrip(desc) \o line_sep

TypedErrors == {"NoTypeError", "NoParamError", "ParamTypeMismatch", "DoubleReturnError"}

------------------------------------------------------------------------------
(* Properties *)

I_open == <<"<", "i", ">">>

\* C1: for either lead character, when no spec is open and a parameter line
\* (indentation s, name n, description d) is immediately followed by a type
\* line for n with type t, the text written for the two lines is exactly
\* s <b>n</b> (<i>t</i>): d </br>
C1_ParamTypeMarkup ==
    \A i \in 1..(Len(hist) - 1) :
        LET pl == in_fd[i]
            tl == in_fd[i + 1]
        IN  (/\ hist[i].parm = None
             /\ hist[i].ret = None
             /\ IsParam(pl)
             /\ IsType(tl)
             /\ TypeName(tl) = ParamName(pl))
            => SubSeq(out_fd, hist[i].pre + 1, hist[i + 1].post)
                 = param_pat(delimiter_char, pl)[1]
                   \o B_open \o ParamName(pl) \o B_close
                   \o <<" ", "(">> \o I_open \o TypeDesc(tl) \o I_close
                   \o <<")", ":", " ">> \o ParamDesc(pl) \o line_sep

\* what the finally block owes the specs open when it is entered: each one's
\* description and closing token are in the text it writes, and none is open
\* afterwards
OpenSpecsFlushed ==
    /\ curr_parm_match' = None
    /\ curr_return_desc' = None
    /\ curr_parm_match # None => Contains(FinallyText, Closed(curr_parm_match[2]))
    /\ curr_return_desc # None => Contains(FinallyText, Closed(curr_return_desc[1]))

\* C2: when parse reaches end-of-input without an exception and returns,
\* every spec open at that point (parameter, return, or both) has its
\* description and the closing token written, and neither is open afterwards
C2_EndOfInputFlushes ==
    [][(pc = "finally" /\ exc = NoExc /\ exc' = NoExc) => OpenSpecsFlushed]_vars

\* C3: when an irregularity aborts the parse in raise mode while a parameter
\* or a return is open, the open spec's description and closing token are
\* written and the open state is cleared before the exception reaches the
\* caller, whatever force_type_spec is
C3_AbortFlushes ==
    [][(pc = "finally" /\ raise_errors /\ exc' \in TypedErrors) => OpenSpecsFlushed]_vars

\* line j is a type line for the parameter of line i
Completes(i, j) == IsType(in_fd[j]) /\ TypeName(in_fd[j]) = ParamName(in_fd[i])

\* a directive that ends the wait of an open parameter for its type
Closes(line) == IsParam(line) \/ IsReturn(line) \/ IsRtype(line) \/ IsRaises(line)

\* line i is a parameter directive that no type line of the same name
\* completes before the next parameter, return, return-type or raises
\* directive, or before end-of-input
Uncompleted(i) ==
    /\ IsParam(in_fd[i])
    /\ ~\E j \in (i + 1)..Len(in_fd) :
          /\ Completes(i, j)
          /\ \A k \in (i + 1)..(j - 1) : ~Closes(in_fd[k])

\* C4, as claimed: with force_type_spec and raise_errors, parsing any input
\* that holds an uncompleted parameter directive ends by raising NoTypeError
C4_AnyUncompletedParamRaises ==
    (/\ pc = "done"
     /\ force_type_spec
     /\ raise_errors
     /\ \E i \in 1..Len(in_fd) : Uncompleted(i))
    => exc = "NoTypeError"

\* C4, amended: with force_type_spec and raise_errors, a parse that has read
\* an uncompleted parameter directive (no earlier irregularity aborted the
\* parse before that line) ends by raising NoTypeError
C4_ReadUncompletedParamRaises ==
    (/\ pc = "done"
     /\ force_type_spec
     /\ raise_errors
     /\ \E i \in 1..line_num : Uncompleted(i))
    => exc = "NoTypeError"

\* C4 witness: a parse that read a parameter directive whose type never came,
\* went on to a later directive, and raised NoTypeError
C4_Witness ==
    /\ pc = "done"
    /\ force_type_spec
    /\ raise_errors
    /\ exc = "NoTypeError"
    /\ \E i \in 1..(line_num - 1) : Uncompleted(i) /\ IsReturn(in_fd[i + 1])

\* the text written from the start of line i up to the next line taken:
\* for the last line taken this includes what the finally block wrote
WrittenSince(i) ==
    SubSeq(out_fd, hist[i].pre + 1,
           IF i < Len(hist) THEN hist[i].post ELSE Len(out_fd))

\* C5: when a type line is read while no parameter is open, raise mode aborts
\* the parse with NoParamError; in every mode the line writes no parameter
\* markup and no type clause (it writes nothing, or itself unchanged) and no
\* parameter becomes open
C5_TypeWithoutParam ==
    \A i \in 1..Len(hist) :
        (IsType(in_fd[i]) /\ hist[i].parm = None)
        => /\ raise_errors =>
                /\ i = line_num
                /\ pc \in {"finally", "done"}
                /\ exc = "NoParamError"
                /\ Written(i) = <<>>
           /\ Written(i) \in {<<>>, in_fd[i]}
           /\ ~Contains(WrittenSince(i), B_open)
           /\ ~Contains(WrittenSince(i), <<"(", "<">>)
           /\ hist[i].parm_after = None
           /\ i = Len(hist) => curr_parm_match = None

\* C5 witness: the caller got NoParamError from a type line read with no
\* parameter open
C5_Witness ==
    /\ pc = "done"
    /\ exc = "NoParamError"
    /\ line_num >= 1
    /\ IsType(in_fd[line_num])
    /\ hist[line_num].parm = None

\* C6: in raise mode a type line whose name differs from the open
\* parameter's aborts the parse, and the caller receives ParamTypeMismatch,
\* whatever force_type_spec is
C6_MismatchReachesCaller ==
    (/\ pc = "done"
     /\ raise_errors
     /\ line_num >= 1
     /\ IsType(in_fd[line_num])
     /\ hist[line_num].parm # None
     /\ TypeName(in_fd[line_num]) # hist[line_num].parm[1])
    => exc = "ParamTypeMismatch"

\* the iteration about to run meets an irregularity: a parameter that
\* force_type_spec wants typed is closed by the next directive, a type line
\* has no parameter or names another one, or a return line finds a return open
IrregularLine ==
    /\ pc = "loop"
    /\ LET line == in_fd[line_num + 1]
       IN  \/ Closes(line) /\ curr_parm_match # None /\ force_type_spec
           \/ IsType(line) /\ curr_parm_match = None
           \/ IsType(line) /\ curr_parm_match # None
                           /\ TypeName(line) # curr_parm_match[1]
           \/ IsReturn(line) /\ curr_return_desc # None

\* the finally block about to run meets one: the parameter it closes has no
\* type and force_type_spec wants one
IrregularEnd == pc = "finally" /\ curr_parm_match # None /\ force_type_spec

\* the for loop goes on after the step: to the next line, or to the end
Continues ==
    /\ pc = "loop" => /\ line_num' = line_num + 1
                      /\ pc' = IF line_num' = Len(in_fd) THEN "finally" ELSE "loop"
    /\ pc = "finally" => pc' = "done"

\* C7: every irregularity goes through one policy: with raise_errors a typed
\* exception is raised and nothing is written to stderr, even with
\* warnings_on; with raise_errors off and warnings_on a warning is written
\* and the parse continues; with both off nothing is reported and the parse
\* continues.  A step that meets no irregularity reports nothing.
C7_OnePolicy ==
    [][/\ (IrregularLine \/ IrregularEnd) =>
            /\ raise_errors =>
                  /\ exc' \in TypedErrors
                  /\ stderr' = stderr
                  /\ pc' \in {"finally", "done"}
                  /\ pc = "loop" => pc' = "finally"
            /\ (~raise_errors /\ warnings) =>
                  /\ Len(stderr') > Len(stderr)
                  /\ exc' = NoExc
                  /\ Continues
            /\ (~raise_errors /\ ~warnings) =>
                  /\ stderr' = stderr
                  /\ exc' = NoExc
                  /\ Continues
       /\ (pc \in {"loop", "finally"} /\ ~IrregularLine /\ ~IrregularEnd) =>
            /\ stderr' = stderr
            /\ exc' = exc
       /\ raise_errors => stderr' = <<>>
      ]_vars

\* C7 witness: in raise mode with warnings_on an irregularity has aborted the
\* parse and nothing is on stderr
C7_Witness ==
    /\ pc = "finally"
    /\ raise_errors
    /\ warnings
    /\ exc \in TypedErrors
    /\ stderr = <<>>

\* C8: every line that matches no directive and is read while neither a
\* parameter nor a return is open is written to the output unchanged, blank
\* or not; the only addition is the closing token after a non-blank line
\* that lacks a trailing newline
C8_PlainLinePassesThrough ==
    \A i \in 1..Len(hist) :
        (~IsDirective(in_fd[i]) /\ hist[i].parm = None /\ hist[i].ret = None)
        => Written(i) = in_fd[i] \o
               (IF ~line_blank_pat(in_fd[i]) /\ ~EndsWith(in_fd[i], NL)
                THEN line_sep ELSE <<>>)

\* C9: an open return is finalized (description and closing token written,
\* return state cleared) as soon as the next directive line or a blank line
\* is read, so later lines are never added to its description
C9_ReturnClosedByNextLine ==
    \A i \in 1..Len(hist) :
        (/\ hist[i].ret # None
         /\ IsDirective(in_fd[i]) \/ line_blank_pat(in_fd[i])
         /\ i < line_num \/ exc = NoExc)
        => /\ IsPrefix(Closed(hist[i].ret[1]), Written(i))
           /\ ~IsReturn(in_fd[i]) => hist[i].ret_after = None

\* C10: the output has <b>returns:</b> immediately followed by the return's
\* description: while a return is open, the first text written after its
\* opening markup is its description
C10_DescriptionFollowsMarkup ==
    \A i \in 1..Len(hist) :
        (hist[i].ret # None /\ Written(i) # <<>>)
        => IsPrefix(Rstrip(hist[i].ret[1]), Written(i))

\* the text the step being taken writes to out_fd
StepText == SubSeq(out_fd', Len(out_fd) + 1, Len(out_fd'))

\* what the step about to run brings to an open parameter: the line read is
\* a parameter, return, return-type or raises directive or a blank line, or
\* the input has ended
ParamClosingEvent ==
    \/ /\ pc = "loop"
       /\ Closes(in_fd[line_num + 1]) \/ line_blank_pat(in_fd[line_num + 1])
    \/ pc = "finally" /\ exc = NoExc

\* the step being taken raises NoTypeError or writes a warning about it
SignalsNoType ==
    \/ exc' = "NoTypeError"
    \/ \E k \in (Len(stderr) + 1)..Len(stderr') : stderr'[k] = "NoTypeError"

\* C11: with force_type_spec off, an open parameter that got no type line is
\* closed by the next parameter, return, return-type or raises directive, by
\* a blank line and by end-of-input: no missing type is signalled, the
\* parameter is no longer open afterwards (a parameter directive leaves its
\* own parameter open) and no type clause is written
C11_UntypedParamClosesSilently ==
    [][(~force_type_spec /\ curr_parm_match # None /\ ParamClosingEvent) =>
          /\ ~SignalsNoType
          /\ curr_parm_match' =
                IF pc = "loop" /\ IsParam(in_fd[line_num + 1])
                THEN <<ParamName(in_fd[line_num + 1]), ParamDesc(in_fd[line_num + 1])>>
                ELSE None
          /\ ~Contains(StepText, <<"(", "<">>)
      ]_vars

\* parse, the for loop from line i on: it ends with the last line or with
\* the first exception
RECURSIVE ParseLines(_, _, _)
ParseLines(s, lines, i) ==
    IF i > Len(lines) \/ s.exc # NoExc THEN s
    ELSE ParseLines(LoopBody(s, lines[i]), lines, i + 1)

\* PdocPostProd(in_fd, out_fd, ..., delimiter_char=d) as a function of the
\* lines read, under the other options of the run: what it wrote and how it
\* ended
ParseWith(d, lines) ==
    Finally(ParseLines([parm |-> None, ret |-> None, out |-> <<>>,
                        err |-> <<>>, exc |-> NoExc, parseInfo |-> d], lines, 1))

\* the same under the delimiter_char of the run
Parse(lines) == ParseWith(delimiter_char, lines)

\* the lines without line i
Without(lines, i) == SubSeq(lines, 1, i - 1) \o SubSeq(lines, i + 1, Len(lines))

\* C12: for both lead characters, a parameter line followed by a continuation
\* line and then its type line gives the same final output as the input
\* without the continuation line (parameter line immediately followed by the
\* type line), the lines around them unchanged
C12_MultiLineParamAsSingleLine ==
    pc = "done" =>
        \A i \in 1..(line_num - 2) :
            (/\ IsParam(in_fd[i])
             /\ ~IsDirective(in_fd[i + 1])
             /\ Completes(i, i + 2))
            => out_fd = Parse(Without(in_fd, i + 1)).out

------------------------------------------------------------------------------
(* The spellings of the return and the raises keyword *)

\* what follows 'return' in :return, :returns, :return: and :returns:
ReturnSuffixes == {<<>>, <<"s">>, <<":">>, <<"s", ":">>}
\* what follows 'raise' in :raise, :raises, :raised and their colon forms
RaiseSuffixes  == {<<>>, <<"s">>, <<"d">>, <<":">>, <<"s", ":">>, <<"d", ":">>}

\* ' <d><keyword><suffix> <desc>\n'
SpelledLine(d, kw, suffix, desc) == SP \o <<d>> \o kw \o suffix \o SP \o desc \o NL

\* the descriptions of the spelled lines: they start with a letter the
\* patterns treat as a part of the keyword when it follows the keyword
ReturnDesc == <<"s">>
RaiseDesc  == <<"d">>

ReturnSpelled(d) == {SpelledLine(d, KwReturn, x, ReturnDesc) : x \in ReturnSuffixes}
RaiseSpelled(d)  == {SpelledLine(d, KwRaise, x, RaiseDesc) : x \in RaiseSuffixes}

\* the lines of the inputs on spellings
SpellingLines(d) == ReturnSpelled(d) \cup RaiseSpelled(d) \cup {PlainLine}

\* nothing has been written and nothing is open
Fresh ==
    /\ out_fd = <<>>
    /\ stderr = <<>>
    /\ curr_parm_match = None
    /\ curr_return_desc = None
    /\ line_num = 0
    /\ pc = "init"
    /\ exc = NoExc
    /\ hist = <<>>

\* the call PdocPostProd(in_fd, out_fd, raise_errors, warnings_on,
\* delimiter_char) on an input of spelled return and raises lines
InitSpellings ==
    /\ delimiter_char \in {":", "@"}
    /\ in_fd \in Inputs(SpellingLines(delimiter_char))
    /\ raise_errors \in BOOLEAN
    /\ warnings \in BOOLEAN
    /\ force_type_spec = FALSE
    /\ Fresh

SpecSpellings == InitSpellings /\ [][Next]_vars

\* the line spelled with the bare keyword: :return, :raise
Respell(d, line) ==
    IF line \in ReturnSpelled(d) THEN SpelledLine(d, KwReturn, <<>>, ReturnDesc)
    ELSE IF line \in RaiseSpelled(d) THEN SpelledLine(d, KwRaise, <<>>, RaiseDesc)
    ELSE line

\* C13: for each lead character, the return lines spelled return, returns,
\* return: and returns: with the same description produce identical output,
\* and so do the raises lines spelled raise, raises and raised, with or
\* without a colon: the output of a parse is the output of the same input
\* with every such line spelled with the bare keyword
C13_SpellingsAlike ==
    pc = "done" =>
        out_fd = Parse([i \in 1..Len(in_fd) |-> Respell(delimiter_char, in_fd[i])]).out

\* C13 witness: a parse that read ':returns:' and ':raised' lines and wrote
\* the return and the raises markup with their descriptions
C13_Witness ==
    /\ pc = "done"
    /\ exc = NoExc
    /\ \E i \in 1..Len(in_fd) :
          in_fd[i] = SpelledLine(delimiter_char, KwReturn, <<"s", ":">>, ReturnDesc)
    /\ \E i \in 1..Len(in_fd) :
          in_fd[i] = SpelledLine(delimiter_char, KwRaise, <<"d">>, RaiseDesc)
    /\ Contains(out_fd, RaisesMarkup \o RaiseDesc \o line_sep)
    /\ Contains(out_fd, ReturnsMarkup)
    /\ EndsWith(out_fd, ReturnDesc \o line_sep)

------------------------------------------------------------------------------
(* Properties, continued *)

\* what a return-type or raises line is rewritten to: its indentation, the
\* markup, the stripped description and the closing token
Rewritten(line) ==
    IF IsRtype(line)
    THEN rtype_pat(delimiter_char, line)[1] \o ReturnTypeMarkup
         \o Strip(rtype_pat(delimiter_char, line)[2]) \o line_sep
    ELSE raises_pat(delimiter_char, line)[1] \o RaisesMarkup
         \o Strip(raises_pat(delimiter_char, line)[2]) \o line_sep

\* C14: the step that handles a return-type line with description d writes
\* its indentation, <b>return type:</b> d and the closing token, and a raises
\* line <b>raises:</b> d likewise; an open parameter is closed before that
\* output (with nothing open, nothing else is written), and the line opens
\* no spec: no parameter is open afterwards and the return state is as before
C14_RtypeAndRaisesOnOneLine ==
    [][(/\ pc = "loop"
        /\ IsRtype(in_fd[line_num + 1]) \/ IsRaises(in_fd[line_num + 1])
        /\ exc' = NoExc)
       => /\ EndsWith(StepText, Rewritten(in_fd[line_num + 1]))
          /\ curr_parm_match = None => StepText = Rewritten(in_fd[line_num + 1])
          /\ curr_parm_match' = None
          /\ curr_return_desc' = curr_return_desc
      ]_vars

\* C14 witness: a return-type line read while a parameter was open closed it
\* and wrote its markup, and a raises line wrote its own
C14_Witness ==
    /\ \E i \in 1..Len(hist) :
          /\ IsRtype(in_fd[i])
          /\ hist[i].parm # None
          /\ hist[i].parm_after = None
          /\ EndsWith(Written(i), Rewritten(in_fd[i]))
    /\ \E i \in 1..Len(hist) :
          /\ IsRaises(in_fd[i])
          /\ Written(i) = Rewritten(in_fd[i])

------------------------------------------------------------------------------
(* Directives at column 0 and deeper *)

Blanks(k) == [i \in 1..k |-> " "]

\* the line (given with one blank of indentation) indented by k blanks
Indent(k, line) == Blanks(k) \o Tail(line)

\* the indentations of the inputs on indentation: none, and two blanks
Indentations == {0, 2}

\* the lines of the inputs on indentation: the five directives of family d
\* at each indentation, and a plain line
IndentLines(d) ==
    {Indent(k, line) : k \in Indentations,
                       line \in {ParamLine(d, <<"n">>, <<"d">>), TypeLine(d, <<"n">>, <<"t">>),
                                 ReturnLine(d, <<"r">>), RtypeLine(d, <<"i">>),
                                 RaisesLine(d, <<"E">>)}}
    \cup {PlainLine}

\* the call PdocPostProd(in_fd, out_fd, raise_errors,
\* delimiter_char=delimiter_char) on such an input
InitIndent ==
    /\ delimiter_char \in {":", "@"}
    /\ in_fd \in Inputs(IndentLines(delimiter_char))
    /\ raise_errors \in BOOLEAN
    /\ warnings = FALSE
    /\ force_type_spec = FALSE
    /\ Fresh

SpecIndent == InitIndent /\ [][Next]_vars

\* the line with one more blank in front: a line that starts with a marker
\* after any indentation, none included, then satisfies (^[ ]+)<marker>
Deeper(line) == SP \o line

\* C15: a directive line is recognized whatever its indentation, none
\* included: a parameter line opens a parameter spec with its name and
\* description, a type line for the open parameter closes it with the type
\* clause, a return line opens a return spec, and a return-type and a raises
\* line write their markup
C15_AnyIndentation ==
    \A i \in 1..Len(hist) :
        LET line == Deeper(in_fd[i])
        IN  /\ IsParam(line) =>
                 hist[i].parm_after = <<ParamName(line), ParamDesc(line)>>
            /\ (IsType(line) /\ hist[i].parm # None /\ TypeName(line) = hist[i].parm[1]) =>
                 /\ hist[i].parm_after = None
                 /\ Contains(Written(i), TypeDesc(line) \o TypeCloseMarkup)
            /\ (IsReturn(line) /\ hist[i].ret = None) =>
                 hist[i].ret_after = <<Strip(return_pat(delimiter_char, line)[2])>>
            /\ IsRtype(line) => Contains(Written(i), ReturnTypeMarkup)
            /\ IsRaises(line) => Contains(Written(i), RaisesMarkup)

------------------------------------------------------------------------------
(* Properties of the constructor and of the marker families *)

\* C16: constructing the rewriter with a delimiter_char other than ':' and
\* '@' raises ValueError before any line is read from the input and before
\* anything is written to the output
C16_BadDelimiterRaises ==
    (pc # "init" /\ delimiter_char \notin {":", "@"})
    => /\ pc = "done"
       /\ exc = "ValueError"
       /\ line_num = 0
       /\ hist = <<>>
       /\ out_fd = <<>>
       /\ stderr = <<>>

\* C16 witness: the constructor was given '#' and an input with lines to
\* rewrite, and raised ValueError
C16_Witness ==
    /\ pc = "done"
    /\ delimiter_char = "#"
    /\ exc = "ValueError"
    /\ \E i \in 1..Len(in_fd) : ~line_blank_pat(in_fd[i])

\* the lines of the inputs on marker families: the five directives of each
\* family, and a plain line
FamilyLines ==
    UNION {{ParamLine(d, <<"n">>, <<"d">>), TypeLine(d, <<"n">>, <<"t">>),
            ReturnLine(d, <<"r">>), RtypeLine(d, <<"i">>), RaisesLine(d, <<"E">>)}
           : d \in {":", "@"}}
    \cup {PlainLine}

\* the call PdocPostProd(in_fd, out_fd, raise_errors, warnings_on,
\* force_type_spec=force_type_spec) with delimiter_char ':' or '@' or with
\* none
InitFamilies ==
    /\ delimiter_char \in {":", "@", NotGiven}
    /\ in_fd \in Inputs(FamilyLines)
    /\ raise_errors \in BOOLEAN
    /\ warnings = FALSE
    /\ force_type_spec \in BOOLEAN
    /\ Fresh

SpecFamilies == InitFamilies /\ [][Next]_vars

\* the line is a directive of the family that is not the active one
OtherFamilyDirective(line) ==
    \/ param_pat(Other(delimiter_char), line) # None
    \/ type_pat(Other(delimiter_char), line) # None
    \/ return_pat(Other(delimiter_char), line) # None
    \/ rtype_pat(Other(delimiter_char), line) # None
    \/ raises_pat(Other(delimiter_char), line) # None

\* the step being taken handles the line as a plain or a continuation line:
\* it is added to the description of the open parameter, else to that of the
\* open return, else it is written unchanged; nothing is opened or closed
\* and nothing is reported
PlainOrContinuation(line) ==
    /\ exc' = NoExc
    /\ stderr' = stderr
    /\ IF curr_parm_match # None
       THEN /\ curr_parm_match' = <<curr_parm_match[1], curr_parm_match[2] \o SP \o line>>
            /\ curr_return_desc' = curr_return_desc
            /\ StepText = <<>>
       ELSE IF curr_return_desc # None
       THEN /\ curr_return_desc' = <<curr_return_desc[1] \o SP \o Strip(line)>>
            /\ curr_parm_match' = None
            /\ StepText = <<>>
       ELSE /\ curr_parm_match' = None
            /\ curr_return_desc' = None
            /\ StepText = line \o (IF EndsWith(line, NL) THEN <<>> ELSE line_sep)

\* C17: exactly one marker family is active per parse: with delimiter_char
\* '@' no ':'-prefixed directive line is treated as a directive (it is
\* handled as a plain or continuation line), with ':' no '@'-prefixed one
\* is, and a call without delimiter_char makes '@' the active family
C17_OneFamilyActive ==
    [][/\ (pc = "init" /\ delimiter_char = NotGiven) => delimiter_char' = "@"
       /\ (pc = "loop" /\ OtherFamilyDirective(in_fd[line_num + 1]))
            => PlainOrContinuation(in_fd[line_num + 1])
      ]_vars

\* C17 witness: a parse rewrote a parameter directive of the active family
\* and passed a return directive of the other family through unchanged
C17_Witness ==
    /\ pc = "done"
    /\ \E i \in 1..Len(hist) :
          /\ in_fd[i] = ReturnLine(Other(delimiter_char), <<"r">>)
          /\ Written(i) = in_fd[i]
    /\ \E i \in 1..Len(hist) :
          /\ in_fd[i] = ParamLine(delimiter_char, <<"n">>, <<"d">>)
          /\ Contains(Written(i), B_open \o <<"n">> \o B_close)

------------------------------------------------------------------------------
(* Properties of the output read as an input *)

\* the positions of the output at which a line starts
LineStarts(out) ==
    {p \in 1..Len(out) : p = 1 \/ out[p - 1] = "\n"}

\* the output line that starts at p, its newline included
OutLine(out, p) ==
    LET ends == {e \in p..Len(out) : out[e] = "\n" \/ e = Len(out)}
    IN  SubSeq(out, p, CHOOSE e \in ends : \A f \in ends : e <= f)

\* the output line that starts at p is an input line passed through: some
\* line read with nothing open was written there unchanged
PassedThrough(p) ==
    \E i \in 1..Len(hist) :
        /\ hist[i].pre + 1 = p
        /\ hist[i].pre < hist[i].post
        /\ hist[i].parm = None /\ hist[i].ret = None
        /\ IsPrefix(in_fd[i], Written(i))

\* the line matches one of the five directive patterns of a lead character
DirectiveOfAFamily(line) ==
    \E d \in {":", "@"} :
        \/ param_pat(d, line) # None
        \/ type_pat(d, line) # None
        \/ return_pat(d, line) # None
        \/ rtype_pat(d, line) # None
        \/ raises_pat(d, line) # None

\* C18: running the transform on its own output creates no directive from
\* emitted text: no output line that begins with text a directive rewrite
\* emitted (opening markup, a description, a closing token), that is, no
\* output line but the input lines passed through, matches one of the five
\* directive patterns of either lead character
C18_NoRematchOfEmittedText ==
    \A p \in LineStarts(out_fd) :
        ~PassedThrough(p) => ~DirectiveOfAFamily(OutLine(out_fd, p))

------------------------------------------------------------------------------
(* Directives inside a markup span *)

\* <span class="sd"> and </span>
SpanOpen  == <<"<", "s", "p", "a", "n", " ", "c", "l", "a", "s", "s", "=", "\"", "s", "d", "\"", ">">>
SpanClose == <<"<", "/", "s", "p", "a", "n", ">">>

\* the descriptions of the test inputs: {int | str} and ValueError
IntOrStr   == <<"{", "i", "n", "t", " ", "|", " ", "s", "t", "r", "}">>
ValueError == <<"V", "a", "l", "u", "e", "E", "r", "r", "o", "r">>

\* '<lead blanks><span class="sd">        <d><keyword> <desc></span>\n'
SpanLine(lead, d, keyword, desc) ==
    Blanks(lead) \o SpanOpen \o Blanks(8) \o <<d>> \o keyword \o SP \o desc
    \o SpanClose \o NL

\* the lines of the inputs on spans: :rtype with and without colon and
\* :raises, at the start of the line and behind the seven blanks the test
\* inputs have, and a plain line
SpanLines(d) ==
    {SpanLine(lead, d, kw, desc) :
        lead \in {0, 7},
        <<kw, desc>> \in {<<KwRtype, IntOrStr>>, <<KwRtype \o <<":">>, IntOrStr>>,
                         <<KwRaise \o <<"s">>, ValueError>>}}
    \cup {PlainLine}

\* the call PdocPostProd(in_fd, out_fd, raise_errors,
\* delimiter_char=delimiter_char) on such an input
InitSpan ==
    /\ delimiter_char \in {":", "@"}
    /\ in_fd \in Inputs(SpanLines(delimiter_char))
    /\ raise_errors \in BOOLEAN
    /\ warnings = FALSE
    /\ force_type_spec = FALSE
    /\ Fresh

SpecSpan == InitSpan /\ [][Next]_vars

\* the line is <lead blanks><span class="sd">...</span> and a newline
InSpan(line) ==
    /\ MatchAt(line, IndentLen(line) + 1, SpanOpen)
    /\ EndsWith(line, SpanClose \o NL)

\* what the span of such a line encloses
SpanBody(line) ==
    SubSeq(line, IndentLen(line) + Len(SpanOpen) + 1,
                 Len(line) - Len(SpanClose) - 1)

\* the line with <markup> <description> in the place of the directive its
\* span encloses
RewrittenInSpan(line, indent, markup, desc) ==
    Blanks(IndentLen(line)) \o SpanOpen \o indent \o markup \o Strip(desc)
    \o SpanClose \o NL

\* C19: for both lead characters, a directive enclosed in a markup span is
\* rewritten inside the span: <span class="sd">        :rtype {int | str}</span>,
\* with or without a colon after the keyword, becomes
\* <span class="sd">        <b>return type:</b> {int | str}</span>, and
\* <span class="sd">        :raises ValueError</span> becomes
\* <span class="sd">        <b>raises:</b> ValueError</span>; the plain
\* lines before and after are passed through unchanged
C19_DirectiveInSpanRewritten ==
    \A i \in 1..Len(hist) :
        LET line == in_fd[i]
            body == SpanBody(line)
        IN  /\ (InSpan(line) /\ IsRtype(body)) =>
                 Written(i) = RewrittenInSpan(line, rtype_pat(delimiter_char, body)[1],
                                  ReturnTypeMarkup, rtype_pat(delimiter_char, body)[2])
            /\ (InSpan(line) /\ IsRaises(body)) =>
                 Written(i) = RewrittenInSpan(line, raises_pat(delimiter_char, body)[1],
                                  RaisesMarkup, raises_pat(delimiter_char, body)[2])
            /\ line = PlainLine => Written(i) = line

------------------------------------------------------------------------------
(* Properties of the parameter closed by a following directive *)

\* C20: with force_type_spec off, when an open parameter that has no type is
\* closed by a following parameter, return, return-type or raises directive,
\* its accumulated description and the closing token are written before any
\* output of the new directive; at most one parameter is open at any time,
\* so the parameter open after the step is the new directive's, or none
C20_ClosedParamDescriptionWritten ==
    \A i \in 1..Len(hist) :
        (/\ ~force_type_spec
         /\ hist[i].parm # None
         /\ Closes(in_fd[i]))
        => /\ IsPrefix(Closed(hist[i].parm[2]), Written(i))
           /\ hist[i].parm_after =
                 IF IsParam(in_fd[i])
                 THEN <<ParamName(in_fd[i]), ParamDesc(in_fd[i])>>
                 ELSE None

------------------------------------------------------------------------------
(* Properties of the return spec *)

\* line i is a return line read while a return was open, and the parameter
\* it closes first (if one is open) is not one force_type_spec wants typed
SecondReturn(i) ==
    /\ IsReturn(in_fd[i])
    /\ hist[i].ret # None
    /\ ~(force_type_spec /\ hist[i].parm # None)

\* C21: a return line read while a return is already open signals
\* DoubleReturnError: raise mode aborts the parse with it; in warn and
\* silent mode the stale return is finalized (its accumulated description
\* and the closing token are written, before the new return's markup) and
\* the new return is the open one, holding the new line's description
C21_DoubleReturn ==
    \A i \in 1..Len(hist) :
        SecondReturn(i)
        => /\ raise_errors =>
                /\ i = line_num
                /\ pc \in {"finally", "done"}
                /\ exc = "DoubleReturnError"
           /\ ~raise_errors =>
                /\ Contains(Written(i),
                            Closed(hist[i].ret[1])
                            \o return_pat(delimiter_char, in_fd[i])[1] \o ReturnsMarkup)
                /\ hist[i].ret_after = <<Strip(return_pat(delimiter_char, in_fd[i])[2])>>

------------------------------------------------------------------------------
(* Properties of continuation lines *)

\* line i is a type line read, in warn or silent mode, while a parameter of
\* another name was open
Mismatch(i) ==
    /\ ~raise_errors
    /\ IsType(in_fd[i])
    /\ hist[i].parm # None
    /\ TypeName(in_fd[i]) # hist[i].parm[1]

\* the description grew by the text of the line
Appended(before, after, line) ==
    /\ IsPrefix(before, after)
    /\ Len(after) > Len(before)
    /\ Contains(SubSeq(after, Len(before) + 1, Len(after)), Strip(line))

\* C22: in warn or silent mode a type line whose name differs from the open
\* parameter's writes nothing and leaves the parameter open under the same
\* name; the line is taken as a continuation line of that parameter, and the
\* next type line with the matching name (no directive that closes the
\* parameter before it) still completes the parameter
C22_MismatchedTypeIsContinuation ==
    \A i \in 1..Len(hist) :
        Mismatch(i)
        => /\ Written(i) = <<>>
           /\ hist[i].parm_after # None
           /\ hist[i].parm_after[1] = hist[i].parm[1]
           /\ Appended(hist[i].parm[2], hist[i].parm_after[2], in_fd[i])
           /\ hist[i].ret_after = hist[i].ret
           /\ \A j \in (i + 1)..Len(hist) :
                 (/\ IsType(in_fd[j])
                  /\ TypeName(in_fd[j]) = hist[i].parm[1]
                  /\ \A k \in (i + 1)..(j - 1) :
                        /\ ~Closes(in_fd[k])
                        /\ ~(IsType(in_fd[k]) /\ TypeName(in_fd[k]) = hist[i].parm[1]))
                 => /\ hist[j].parm_after = None
                    /\ Contains(Written(j), TypeDesc(in_fd[j]) \o TypeCloseMarkup
                                            \o hist[i].parm_after[2])

\* C22 witness: a mismatched type line was taken as a continuation and the
\* type line that followed completed the parameter
C22_Witness ==
    \E i \in 1..(Len(hist) - 1) :
        /\ Mismatch(i)
        /\ IsType(in_fd[i + 1])
        /\ TypeName(in_fd[i + 1]) = hist[i].parm[1]
        /\ hist[i + 1].parm_after = None
        /\ Contains(Written(i + 1), Strip(in_fd[i]))

\* C23: while a parameter or a return is open, a line that matches no
\* directive writes nothing and is appended to the open description; at the
\* join the line's leading and trailing white space, its newline included,
\* is removed and a single blank is inserted, for parameter and return
\* descriptions alike
C23_ContinuationNormalised ==
    \A i \in 1..Len(hist) :
        ~IsDirective(in_fd[i])
        => /\ hist[i].parm # None =>
                /\ Written(i) = <<>>
                /\ hist[i].parm_after =
                      <<hist[i].parm[1], hist[i].parm[2] \o SP \o Strip(in_fd[i])>>
           /\ (hist[i].parm = None /\ hist[i].ret # None) =>
                /\ Written(i) = <<>>
                /\ hist[i].ret_after = <<hist[i].ret[1] \o SP \o Strip(in_fd[i])>>

\* C24: when a parameter and a return are open at the same time, a line that
\* matches no directive is appended to the parameter's description only: the
\* return description and the output are unchanged by it; the return
\* receives continuation lines only when no parameter is open
C24_ParamTakesContinuation ==
    \A i \in 1..Len(hist) :
        ~IsDirective(in_fd[i])
        => /\ (hist[i].parm # None /\ hist[i].ret # None) =>
                /\ hist[i].parm_after # None
                /\ hist[i].parm_after[1] = hist[i].parm[1]
                /\ Appended(hist[i].parm[2], hist[i].parm_after[2], in_fd[i])
                /\ hist[i].ret_after = hist[i].ret
                /\ Written(i) = <<>>
           /\ hist[i].ret_after # hist[i].ret => hist[i].parm = None

\* C24 witness: with a parameter and a return open, a plain line went to the
\* parameter's description
C24_Witness ==
    \E i \in 1..Len(hist) :
        /\ in_fd[i] = PlainLine
        /\ hist[i].parm # None
        /\ hist[i].ret # None
        /\ hist[i].parm_after # hist[i].parm
        /\ hist[i].ret_after = hist[i].ret

------------------------------------------------------------------------------
(* Descriptions that bring their own closing token *)

\* ' x</br>\n': a continuation line that ends with the closing token
TokenLine == SP \o <<"x">> \o line_sep \o NL

\* the lines of the inputs on closing tokens: parameter and return lines
\* with and without the token at the end of the description, the lines that
\* finalize them, and continuation lines
ClosingLines(d) ==
    {ParamLine(d, <<"n">>, <<"d">>), ParamLine(d, <<"n">>, <<"d">> \o line_sep),
     TypeLine(d, <<"n">>, <<"t">>), ReturnLine(d, <<"r">> \o line_sep),
     RtypeLine(d, <<"i">>), TokenLine, BlankLine}

\* the call PdocPostProd(in_fd, out_fd, raise_errors,
\* delimiter_char=delimiter_char) on such an input
InitClosing ==
    /\ delimiter_char \in {":", "@"}
    /\ in_fd \in Inputs(ClosingLines(delimiter_char))
    /\ raise_errors \in BOOLEAN
    /\ warnings = FALSE
    /\ force_type_spec = FALSE
    /\ Fresh

SpecClosing == InitClosing /\ [][Next]_vars

\* the closing token a finalization owes a description: none when the
\* description ends with the token, else one
Owed(desc) == IF EndsWith(desc, line_sep) THEN <<>> ELSE line_sep

\* C25: when the description of a parameter or return being finalized
\* already ends with the closing token </br>, finalization writes no further
\* token, otherwise exactly one, so that the output never has two closing
\* tokens for one finalized spec: the finally block writes the description
\* (without trailing white space) and the token it owes, a type line writes
\* the description and the token it owes, and a directive that closes a
\* parameter writes, before its own output, the token the parameter is owed
C25_OneClosingToken ==
    [][/\ (pc = "finally" /\ exc = NoExc /\ exc' = NoExc /\ curr_parm_match # None) =>
            StepText = Rstrip(curr_parm_match[2]) \o Owed(Rstrip(curr_parm_match[2]))
       /\ (pc = "finally" /\ exc = NoExc /\ exc' = NoExc /\ curr_parm_match = None
                          /\ curr_return_desc # None) =>
            StepText = Rstrip(curr_return_desc[1]) \o Owed(Rstrip(curr_return_desc[1]))
       /\ (pc = "loop" /\ exc' = NoExc /\ curr_parm_match # None
                       /\ IsType(in_fd[line_num + 1])
                       /\ TypeName(in_fd[line_num + 1]) = curr_parm_match[1]) =>
            EndsWith(StepText, TypeCloseMarkup \o curr_parm_match[2]
                               \o Owed(curr_parm_match[2]))
       /\ (pc = "loop" /\ exc' = NoExc /\ curr_parm_match # None
                       /\ Closes(in_fd[line_num + 1])) =>
            (IsPrefix(line_sep, StepText) <=> Owed(curr_parm_match[2]) = line_sep)
      ]_vars

------------------------------------------------------------------------------
(* Parses that do not raise *)

\* the lines of the inputs with irregularities: the directives of the family
\* d, which give a missing type, a type without parameter, a name mismatch
\* and a second return, and the lines that continue a spec
IrregularLines(d) ==
    {ParamLine(d, <<"n">>, <<"d">>), TypeLine(d, <<"n">>, <<"t">>),
     TypeLine(d, <<"m">>, <<"t">>), ReturnLine(d, <<"r">>),
     RtypeLine(d, <<"i">>), RaisesLine(d, <<"E">>),
     PlainLine, BlankLine}

\* the call PdocPostProd(in_fd, out_fd, raise_errors=False, warnings_on,
\* delimiter_char, force_type_spec)
InitLenient ==
    /\ delimiter_char \in {":", "@"}
    /\ in_fd \in Inputs(IrregularLines(delimiter_char))
    /\ raise_errors = FALSE
    /\ warnings \in BOOLEAN
    /\ force_type_spec \in BOOLEAN
    /\ Fresh

\* the statements of __init__ and parse run one after the other without
\* waiting for anything: a step that can be taken is taken
SpecLenient == InitLenient /\ [][Next]_vars /\ WF_vars(Next)

\* C26: with raise_errors=False the parse of any finite input terminates
\* without raising an irregularity exception, having examined every input
\* line exactly once and in input order, whatever irregularities the input
\* has and whatever warnings_on and force_type_spec are: the parse returns,
\* no exception is ever set, each iteration examines the line after the one
\* examined before, and at the return all lines have been examined
C26_LenientParseTerminates ==
    /\ <>(pc = "done")
    /\ [](exc = NoExc)
    /\ [][line_num' # line_num =>
             /\ pc = "loop"
             /\ line_num' = line_num + 1
             /\ Len(hist') = line_num'
             /\ \A i \in 1..line_num : hist'[i] = hist[i]]_vars
    /\ [](pc = "done" => line_num = Len(in_fd) /\ Len(hist) = Len(in_fd))

\* a parse in warn mode returns after three lines and two warnings
C26_Witness ==
    /\ pc = "done"
    /\ ~raise_errors /\ warnings
    /\ Len(in_fd) = MaxLines
    /\ line_num = Len(in_fd)
    /\ Len(stderr) >= 2
    /\ exc = NoExc

------------------------------------------------------------------------------
(* The open return *)

------------------------------------------------------------------------------
(* The two families side by side *)

\* the directives set_delimiter_char looks for, without their ':'
Directives == {KwParam, KwType, KwReturn, KwRtype, KwRaise \o <<"s">>}

\* set_delimiter_char(content, delimiter_char): each ':param', ':type',
\* ':return', ':rtype' and ':raises' of the content gets delimiter_char in
\* the place of its ':'
set_delimiter_char(content, d) ==
    [i \in 1..Len(content) |->
        IF content[i] = ":" /\ \E k \in Directives : MatchAt(content, i + 1, k)
        THEN d ELSE content[i]]

\* the strings of a sequence (the lines of an input, the groups of a
\* match), each with its directives under the delimiter d
Adjusted(lines, d) == [i \in 1..Len(lines) |-> set_delimiter_char(lines[i], d)]

\* the input of the parse is written with ':' markers and parsed with ':'
ColonInput ==
    /\ delimiter_char = ":"
    /\ \A i \in 1..Len(in_fd) : ~OtherFamilyDirective(in_fd[i])

------------------------------------------------------------------------------
(* Warnings *)

\* the lines at which a parameter, still open without a type while
\* force_type_spec is on, is closed by the next directive
MissingTypeLines ==
    {i \in 1..Len(hist) :
        force_type_spec /\ hist[i].parm # None /\ Closes(in_fd[i])}

\* the parameter that is open without a type at the end of the input while
\* force_type_spec is on
MissingTypeAtEnd ==
    IF force_type_spec /\ Len(hist) > 0 /\ hist[Len(hist)].parm_after # None
    THEN 1 ELSE 0

\* the type lines with no parameter open
TypeWithoutParamLines ==
    {i \in 1..Len(hist) : IsType(in_fd[i]) /\ hist[i].parm = None}

\* the type lines for another name than that of the open parameter
MismatchLines ==
    {i \in 1..Len(hist) :
        IsType(in_fd[i]) /\ hist[i].parm # None
                        /\ TypeName(in_fd[i]) # hist[i].parm[1]}

\* the return lines with a return open
DuplicateReturnLines ==
    {i \in 1..Len(hist) : IsReturn(in_fd[i]) /\ hist[i].ret # None}

\* the number of irregularities of the input
Irregularities ==
    Cardinality(MissingTypeLines) + MissingTypeAtEnd
    + Cardinality(TypeWithoutParamLines) + Cardinality(MismatchLines)
    + Cardinality(DuplicateReturnLines)

\* C29: in warn mode (raise_errors=False, warnings_on=True) each detected
\* irregularity produces exactly one warning: the number of warnings written
\* to stderr during a parse equals the number of irregularities (missing
\* type, type without parameter, name mismatch, duplicate return) of the
\* input
C29_OneWarningPerIrregularity ==
    (pc = "done" /\ ~raise_errors /\ warnings /\ delimiter_char \in {":", "@"}) =>
        Len(stderr) = Irregularities

====
